---- MODULE Spec2Model ----
(***************************************************************************)
(* Model of the Home Assistant Keybow bridge (ha_bridge.py): the line      *)
(* protocol handled by KeybowBridge, the REST client HomeAssistant and the *)
(* restart/retry loop of main().                                           *)
(*                                                                         *)
(* Text is modelled as sequences of one-character strings, so that         *)
(* strip(), startswith(), split() and int() are computed as Python         *)
(* computes them.                                                          *)
(***************************************************************************)
EXTENDS Integers, Sequences, FiniteSets, TLC

VARIABLES
    MAX_RETRIES,  \* config "max_retries": None or <<n>> (ha_bridge.py:79)
    pc,           \* position of the single control flow
    pending,      \* exception propagating out of run(), "none" if there is none
    ser,          \* bridge.ser of the current KeybowBridge: "None", "open", "closed"
    running,      \* bridge.running
    ready_count,  \* bridge.ready_count
    retry_count,  \* main()'s retry_count
    exit_status,  \* None while the process lives, then <<0>> or <<1>>
    events,       \* remote calls and serial writes made in the current iteration
                  \* of run()'s loop (the last one, once the loop is left), in order
    lastLine,     \* the command handed to handle_command in that iteration, or None
    outcomes,     \* history: how each finished run() ended, oldest first
    started,      \* history: number of KeybowBridge instances created
    leaked,       \* history: transports of earlier bridges that were never closed
    interrupted   \* history: the operator has sent an interrupt (Ctrl+C)

vars == <<MAX_RETRIES, pc, pending, ser, running, ready_count, retry_count,
          exit_status, events, lastLine, outcomes, started, leaked, interrupted>>

----------------------------------------------------------------------------
(* Bounds of the model *)

\* number of KeybowBridge instances main() may create in a behaviour
MaxSessions == 4

\* largest configured value of max_retries
MaxRetriesBound == 3

----------------------------------------------------------------------------
(* Python values *)

\* Python's None (Optional[...] values are None or a one-element tuple / a string)
None == <<>>

\* the string state that stands for get_state() returning None in an event
NoneState == "<None>"

\* truth value of an Optional[int] used as a condition (`if MAX_RETRIES and ...`)
Truthy(m) == m # None /\ m[1] # 0

\* a byte that is not valid UTF-8; bytes.decode(errors='ignore') drops it
BadByte == "<0xFF>"

Digits == <<"0", "1", "2", "3", "4", "5", "6", "7", "8", "9">>

IsDigit(c) == \E i \in 1..Len(Digits) : Digits[i] = c

DigitVal(c) == (CHOOSE i \in 1..Len(Digits) : Digits[i] = c) - 1

\* the characters str.strip() and int() treat as white space
IsSpace(c) == c \in {" ", "\t", "\n", "\r", "\f"}

\* bytes.decode('utf-8', errors='ignore')
Decode(bytes) == SelectSeq(bytes, LAMBDA b : b # BadByte)

RECURSIVE LStrip(_)
LStrip(s) == IF s # <<>> /\ IsSpace(Head(s)) THEN LStrip(Tail(s)) ELSE s

RECURSIVE RStrip(_)
RStrip(s) ==
    IF s # <<>> /\ IsSpace(s[Len(s)]) THEN RStrip(SubSeq(s, 1, Len(s) - 1)) ELSE s

\* str.strip()
Strip(s) == RStrip(LStrip(s))

\* str.startswith(p)
StartsWith(s, p) == Len(s) >= Len(p) /\ SubSeq(s, 1, Len(p)) = p

\* str.split(sep) for a one-character separator: always at least one field
RECURSIVE SplitFrom(_, _, _)
SplitFrom(s, sep, cur) ==
    IF s = <<>> THEN <<cur>>
    ELSE IF Head(s) = sep THEN <<cur>> \o SplitFrom(Tail(s), sep, <<>>)
    ELSE SplitFrom(Tail(s), sep, Append(cur, Head(s)))

Split(s, sep) == SplitFrom(s, sep, <<>>)

RECURSIVE DigitsValue(_, _)
DigitsValue(s, acc) ==
    IF s = <<>> THEN acc ELSE DigitsValue(Tail(s), 10 * acc + DigitVal(Head(s)))

\* int(s): white space around is ignored, one optional sign, then at least one
\* decimal digit and nothing else; anything else raises ValueError
PyInt(s) ==
    LET t    == Strip(s)
        neg  == t # <<>> /\ Head(t) = "-"
        sgn  == t # <<>> /\ Head(t) \in {"-", "+"}
        body == IF sgn THEN Tail(t) ELSE t
        good == body # <<>> /\ \A i \in 1..Len(body) : IsDigit(body[i])
    IN  IF good
        THEN [ok |-> TRUE, val |-> IF neg THEN 0 - DigitsValue(body, 0)
                                          ELSE DigitsValue(body, 0)]
        ELSE [ok |-> FALSE, val |-> 0]

----------------------------------------------------------------------------
(* Configuration (module level of ha_bridge.py) *)

light_a == <<"l", "i", "g", "h", "t", ".", "a">>

scene_b == <<"s", "c", "e", "n", "e", ".", "b">>

\* ENTITY_MAP in dict order: <<key index, entity id>>
ENTITY_MAP == << <<1, light_a>>, <<3, scene_b>> >>

MappedKeys == {ENTITY_MAP[i][1] : i \in 1..Len(ENTITY_MAP)}

\* `key_num in self.entity_map`
InEntityMap(key_num) == key_num \in MappedKeys

\* `self.entity_map[key_num]`
EntityOf(key_num) ==
    ENTITY_MAP[CHOOSE i \in 1..Len(ENTITY_MAP) : ENTITY_MAP[i][1] = key_num][2]

----------------------------------------------------------------------------
(* The remote API as seen by one request: the request raises (timeout,      *)
(* connection error), or answers with a status and a body.                  *)

GetResponses ==
    { [exc |-> TRUE,  status |-> 0,   json |-> "none",      state |-> NoneState],
      [exc |-> FALSE, status |-> 500, json |-> "none",      state |-> NoneState],
      [exc |-> FALSE, status |-> 200, json |-> "malformed", state |-> NoneState],
      [exc |-> FALSE, status |-> 200, json |-> "object",    state |-> NoneState],
      [exc |-> FALSE, status |-> 200, json |-> "object",    state |-> "on"],
      [exc |-> FALSE, status |-> 200, json |-> "object",    state |-> "off"],
      [exc |-> FALSE, status |-> 200, json |-> "object",    state |-> "unavailable"] }

PostResponses ==
    { [exc |-> TRUE,  status |-> 0],
      [exc |-> FALSE, status |-> 500],
      [exc |-> FALSE, status |-> 200] }

\* what the environment answers during one handle_command: the GET for each
\* key, the POST, and whether the serial write for each key succeeds
Envs == [get : [MappedKeys -> GetResponses],
         post : PostResponses,
         wr : [MappedKeys -> BOOLEAN]]

----------------------------------------------------------------------------
(* HomeAssistant: results are [raised, val]; raised means the call left by  *)
(* an exception instead of returning val.                                   *)

\* HomeAssistant.get_state: the state string, or None on any failure
get_state(resp) ==
    IF resp.exc THEN [raised |-> FALSE, val |-> NoneState]
    ELSE IF resp.status = 200
         THEN IF resp.json = "malformed"
              THEN [raised |-> FALSE, val |-> NoneState]
              ELSE [raised |-> FALSE, val |-> resp.state]
         ELSE [raised |-> FALSE, val |-> NoneState]

\* call_service without its try/except: a failed request raises
call_service_Raises(resp) ==
    IF resp.exc THEN [raised |-> TRUE, val |-> FALSE]
    ELSE [raised |-> FALSE, val |-> resp.status = 200]

\* HomeAssistant.call_service
call_service(resp) ==
    IF resp.exc THEN [raised |-> FALSE, val |-> FALSE]
    ELSE [raised |-> FALSE, val |-> resp.status = 200]

\* the service chosen by HomeAssistant.toggle from the entity's domain
ServiceOf(entity_id) ==
    LET domain == Split(entity_id, ".")[1]
    IN  IF domain \in {<<"s", "c", "e", "n", "e">>, <<"s", "c", "r", "i", "p", "t">>}
        THEN "turn_on" ELSE "toggle"

\* HomeAssistant.toggle
toggle(resp) == call_service(resp)

\* HomeAssistant.is_on
is_on(resp) ==
    LET state == get_state(resp)
    IN  [raised |-> state.raised, val |-> state.val = "on", state |-> state.val]

----------------------------------------------------------------------------
(* KeybowBridge: the handlers compute the events they cause (remote calls   *)
(* and serial writes, in order) and the exception they leave by.            *)

Event(op, key, arg, ok) == [op |-> op, key |-> key, arg |-> arg, ok |-> ok]

\* KeybowBridge.send_state: a failed write is printed and swallowed
send_state(serState, key_num, state, writeOk) ==
    IF serState = "open"
    THEN <<Event("write", key_num, state, writeOk)>>
    ELSE <<>>

\* the body of refresh_states' loop for one entry of the map
RefreshOne(serState, key_num, env) ==
    LET r     == is_on(env.get[key_num])
        state == IF r.val THEN "on" ELSE "off"
    IN  IF r.raised
        THEN <<Event("query", key_num, "raised", FALSE)>>
        ELSE <<Event("query", key_num, r.state, r.state # NoneState)>>
             \o send_state(serState, key_num, state, env.wr[key_num])

\* KeybowBridge.refresh_states: every entry of the map, in order
RECURSIVE RefreshFrom(_, _, _)
RefreshFrom(i, serState, env) ==
    IF i > Len(ENTITY_MAP) THEN <<>>
    ELSE RefreshOne(serState, ENTITY_MAP[i][1], env)
         \o RefreshFrom(i + 1, serState, env)

refresh_states(serState, env) == RefreshFrom(1, serState, env)

\* handle_toggle that shows an unmapped key as off instead of returning
handle_toggle_Unmapped(key_num, serState, env) ==
    IF ~InEntityMap(key_num)
    THEN [events |-> send_state(serState, key_num, "off", TRUE), exc |-> "none"]
    ELSE LET t   == toggle(env.post)
             inv == Event("invoke", key_num, ServiceOf(EntityOf(key_num)), t.val)
             r   == is_on(env.get[key_num])
         IN  IF t.val
             THEN [events |-> <<inv, Event("query", key_num, r.state,
                                           r.state # NoneState)>>
                              \o send_state(serState, key_num,
                                            IF r.val THEN "on" ELSE "off",
                                            env.wr[key_num]),
                   exc |-> "none"]
             ELSE [events |-> <<inv>>, exc |-> "none"]

\* handle_toggle in which a failed serial write is not swallowed by send_state
\* but leaves as a ConnectionError
handle_toggle_WriteFatal(key_num, serState, env) ==
    IF ~InEntityMap(key_num)
    THEN [events |-> <<>>, exc |-> "none"]
    ELSE LET t   == toggle(env.post)
             inv == Event("invoke", key_num, ServiceOf(EntityOf(key_num)), t.val)
             r   == is_on(env.get[key_num])
             w   == send_state(serState, key_num, IF r.val THEN "on" ELSE "off",
                               env.wr[key_num])
         IN  IF t.val
             THEN [events |-> <<inv, Event("query", key_num, r.state,
                                           r.state # NoneState)>> \o w,
                   exc |-> IF \E i \in 1..Len(w) : ~w[i].ok
                           THEN "ConnectionError" ELSE "none"]
             ELSE [events |-> <<inv>>, exc |-> "none"]

\* handle_toggle that tries the service call a second time when it failed
handle_toggle_Retry(key_num, serState, env) ==
    IF ~InEntityMap(key_num)
    THEN [events |-> <<>>, exc |-> "none"]
    ELSE LET t   == toggle(env.post)
             inv == Event("invoke", key_num, ServiceOf(EntityOf(key_num)), t.val)
             r   == is_on(env.get[key_num])
         IN  IF t.val
             THEN [events |-> <<inv, Event("query", key_num, r.state,
                                           r.state # NoneState)>>
                              \o send_state(serState, key_num,
                                            IF r.val THEN "on" ELSE "off",
                                            env.wr[key_num]),
                   exc |-> "none"]
             ELSE [events |-> <<inv, inv>>, exc |-> "none"]

\* KeybowBridge.handle_toggle
handle_toggle(key_num, serState, env) ==
    IF ~InEntityMap(key_num)
    THEN [events |-> <<>>, exc |-> "none"]
    ELSE LET entity_id == EntityOf(key_num)
             t         == toggle(env.post)
             inv       == Event("invoke", key_num, ServiceOf(entity_id), t.val)
             r         == is_on(env.get[key_num])
             state     == IF r.val THEN "on" ELSE "off"
         IN  IF t.raised
             THEN [events |-> <<Event("invoke", key_num, ServiceOf(entity_id), FALSE)>>,
                   exc |-> "Exception"]
             ELSE IF t.val
             THEN IF r.raised
                  THEN [events |-> <<inv, Event("query", key_num, "raised", FALSE)>>,
                        exc |-> "Exception"]
                  ELSE [events |-> <<inv, Event("query", key_num, r.state,
                                                r.state # NoneState)>>
                                   \o send_state(serState, key_num, state,
                                                 env.wr[key_num]),
                        exc |-> "none"]
             ELSE [events |-> <<inv>>, exc |-> "none"]

READY == <<"R", "E", "A", "D", "Y">>

HEARTBEAT == <<"H", "E", "A", "R", "T", "B", "E", "A", "T">>

TOGGLE_ == <<"T", "O", "G", "G", "L", "E", ":">>

DEBUG_ == <<"D", "E", "B", "U", "G", ":">>

ERROR_ == <<"E", "R", "R", "O", "R", ":">>

\* handle_command that takes the third READY, not the second, for a reset
handle_command_LateReset(command, rc, serState, env) ==
    IF command = READY
    THEN IF rc + 1 > 2
         THEN [ready_count |-> rc + 1, events |-> <<>>, exc |-> "RestartRequested"]
         ELSE [ready_count |-> rc + 1, events |-> refresh_states(serState, env),
               exc |-> "none"]
    ELSE IF command = HEARTBEAT
    THEN [ready_count |-> rc, events |-> <<>>, exc |-> "none"]
    ELSE IF StartsWith(command, TOGGLE_)
    THEN LET key_num == PyInt(Split(command, ":")[2])
             h       == handle_toggle(key_num.val, serState, env)
         IN  IF key_num.ok
             THEN [ready_count |-> rc, events |-> h.events, exc |-> h.exc]
             ELSE [ready_count |-> rc, events |-> <<>>, exc |-> "ValueError"]
    ELSE [ready_count |-> rc, events |-> <<>>, exc |-> "none"]

\* KeybowBridge.handle_command
handle_command(command, rc, serState, env) ==
    IF command = READY
    THEN IF rc + 1 > 1
         THEN [ready_count |-> rc + 1, events |-> <<>>, exc |-> "RestartRequested"]
         ELSE [ready_count |-> rc + 1, events |-> refresh_states(serState, env),
               exc |-> "none"]
    ELSE IF command = HEARTBEAT
    THEN [ready_count |-> rc, events |-> <<>>, exc |-> "none"]
    ELSE IF StartsWith(command, TOGGLE_)
    THEN LET key_num == PyInt(Split(command, ":")[2])
             h       == handle_toggle(key_num.val, serState, env)
         IN  IF key_num.ok
             THEN [ready_count |-> rc, events |-> h.events, exc |-> h.exc]
             ELSE [ready_count |-> rc, events |-> <<>>, exc |-> "ValueError"]
    ELSE [ready_count |-> rc, events |-> <<>>, exc |-> "none"]

----------------------------------------------------------------------------
(* What the device may put on the wire: the bytes one readline() returns *)

RawLines ==
    { READY \o <<"\n">>,
      HEARTBEAT \o <<"\n">>,
      TOGGLE_ \o <<"1", "\n">>,
      TOGGLE_ \o <<"3", "\n">>,
      TOGGLE_ \o <<"2", "\n">>,
      TOGGLE_ \o <<"1", "2", "\n">>,
      TOGGLE_ \o <<"x", "\n">>,
      TOGGLE_ \o <<"3", ":", "4", "\n">>,
      DEBUG_ \o <<"k", "\n">>,
      ERROR_ \o <<"e", "\n">>,
      <<"g", "a", "r", "b", "a", "g", "e", "\r", "\n">>,
      <<"\n">>,
      <<BadByte>>,
      <<BadByte>> \o READY \o <<"\r", "\n">> }

----------------------------------------------------------------------------
(* The state machine.  pc:                                                  *)
(*   main_loop     main(): top of `while True`, inside the try              *)
(*   connect       run() -> connect(): about to open the port               *)
(*   settle        connect(): port open, sleep(2); then run() up to `try:`  *)
(*   loop          run(): top of the read loop, about to call read_serial() *)
(*   loop_sleep    run(): read_serial() returned, sleep(0.01)               *)
(*   finally       run(): entering `finally:`                               *)
(*   finally_close run(): inside the inner try, about to call ser.close()   *)
(*   finally_sleep run(): port closed, sleep(0.5)                           *)
(*   main_except   main(): run() was left, choosing the except clause       *)
(*   retry_wait    main(): sleep(RETRY_DELAY)                               *)
(*   exited        the process has ended                                    *)

Init ==
    /\ MAX_RETRIES \in {None} \cup {<<n>> : n \in 0..MaxRetriesBound}
    /\ pc = "main_loop"
    /\ pending = "none"
    /\ ser = "None"
    /\ running = FALSE
    /\ ready_count = 0
    /\ retry_count = 0
    /\ exit_status = None
    /\ events = <<>>
    /\ lastLine = None
    /\ outcomes = <<>>
    /\ started = 0
    /\ leaked = 0
    /\ interrupted = FALSE

\* a bridge whose READY counter outlives the instance (a class attribute or a
\* global instead of the field set in __init__)
CreateBridge_KeepCount ==
    /\ pc = "main_loop"
    /\ started < MaxSessions
    /\ pc' = "connect"
    /\ ser' = "None"
    /\ running' = FALSE
    /\ ready_count' = ready_count
    /\ events' = <<>>
    /\ lastLine' = None
    /\ started' = started + 1
    /\ leaked' = IF ser = "open" THEN leaked + 1 ELSE leaked
    /\ UNCHANGED <<MAX_RETRIES, pending, retry_count, exit_status, outcomes,
                   interrupted>>

\* main(): bridge = KeybowBridge(...); bridge.run() is entered
CreateBridge ==
    /\ pc = "main_loop"
    /\ started < MaxSessions
    /\ pc' = "connect"
    /\ ser' = "None"
    /\ running' = FALSE
    /\ ready_count' = 0
    /\ events' = <<>>
    /\ lastLine' = None
    /\ started' = started + 1
    /\ leaked' = IF ser = "open" THEN leaked + 1 ELSE leaked
    /\ UNCHANGED <<MAX_RETRIES, pending, retry_count, exit_status, outcomes,
                   interrupted>>

\* connect(): serial.Serial(...) succeeds
ConnectOk ==
    /\ pc = "connect"
    /\ ser' = "open"
    /\ pc' = "settle"
    /\ UNCHANGED <<MAX_RETRIES, pending, running, ready_count, retry_count,
                   exit_status, events, lastLine, outcomes, started, leaked,
                   interrupted>>

\* connect(): serial.Serial(...) raises; connect returns False and run()
\* raises ConnectionError before its try statement
ConnectFail ==
    /\ pc = "connect"
    /\ pending' = "ConnectionError"
    /\ pc' = "main_except"
    /\ UNCHANGED <<MAX_RETRIES, ser, running, ready_count, retry_count,
                   exit_status, events, lastLine, outcomes, started, leaked,
                   interrupted>>

\* KeyboardInterrupt while opening: not an Exception, so connect() does not
\* catch it, and run() is not yet in its try statement
ConnectInterrupt ==
    /\ pc = "connect"
    /\ pending' = "KeyboardInterrupt"
    /\ pc' = "main_except"
    /\ interrupted' = TRUE
    /\ UNCHANGED <<MAX_RETRIES, ser, running, ready_count, retry_count,
                   exit_status, events, lastLine, outcomes, started, leaked>>

\* connect() returns True; run() sets running and reaches its try statement
Settle ==
    /\ pc = "settle"
    /\ running' = TRUE
    /\ pc' = "loop"
    /\ UNCHANGED <<MAX_RETRIES, pending, ser, ready_count, retry_count,
                   exit_status, events, lastLine, outcomes, started, leaked,
                   interrupted>>

\* KeyboardInterrupt during connect()'s sleep(2) or run()'s banner: the port
\* is open and run() is left before its try/finally
SettleInterrupt ==
    /\ pc = "settle"
    /\ pending' = "KeyboardInterrupt"
    /\ pc' = "main_except"
    /\ interrupted' = TRUE
    /\ UNCHANGED <<MAX_RETRIES, ser, running, ready_count, retry_count,
                   exit_status, events, lastLine, outcomes, started, leaked>>

\* the requests and writes handle_command can make for a command, so that
\* the environment's answers are enumerated only where they are consumed
UsedKeys(command) ==
    IF command = READY THEN MappedKeys
    ELSE IF StartsWith(command, TOGGLE_)
    THEN {k \in MappedKeys : PyInt(Split(command, ":")[2]) = [ok |-> TRUE, val |-> k]}
    ELSE {}

HealthyGet == [exc |-> FALSE, status |-> 200, json |-> "object", state |-> "on"]

HealthyPost == [exc |-> FALSE, status |-> 200]

EnvsFor(command) ==
    LET U == UsedKeys(command)
    IN  { [get  |-> [k \in MappedKeys |-> IF k \in U THEN g[k] ELSE HealthyGet],
           post |-> p,
           wr   |-> [k \in MappedKeys |-> IF k \in U THEN w[k] ELSE TRUE]] :
          g \in [U -> GetResponses],
          p \in IF command # READY /\ U # {} THEN PostResponses ELSE {HealthyPost},
          w \in [U -> BOOLEAN] }

\* what handle_command can do with a command, over all the environment's answers
Handled(command, rc, serState) ==
    {handle_command(command, rc, serState, env) : env \in EnvsFor(command)}

\* one iteration of run()'s loop in which read_serial() reads a line and
\* handle_command runs to its end (returns or raises)
ReadSerial ==
    /\ pc = "loop"
    /\ running
    /\ ser = "open"
    /\ \E raw \in RawLines :
          LET line == Decode(raw)
          IN  IF line # <<>>
              THEN \E h \in Handled(Strip(line), ready_count, ser) :
                      /\ ready_count' = h.ready_count
                      /\ events' = h.events
                      /\ lastLine' = <<Strip(line)>>
                      /\ IF h.exc = "none"
                         THEN pc' = "loop_sleep" /\ pending' = pending
                         ELSE pc' = "finally" /\ pending' = h.exc
              ELSE /\ pc' = "loop_sleep"
                   /\ UNCHANGED <<ready_count, events, lastLine, pending>>
    /\ UNCHANGED <<MAX_RETRIES, ser, running, retry_count, exit_status,
                   outcomes, started, leaked, interrupted>>

\* read_serial(): in_waiting or readline() raises OSError / SerialException,
\* which read_serial turns into ConnectionError
ReadSerialFail ==
    /\ pc = "loop"
    /\ running
    /\ ser = "open"
    /\ pending' = "ConnectionError"
    /\ pc' = "finally"
    /\ UNCHANGED <<MAX_RETRIES, ser, running, ready_count, retry_count,
                   exit_status, events, lastLine, outcomes, started, leaked,
                   interrupted>>

\* the calls already made when a KeyboardInterrupt arrives during one of the
\* blocking calls of handle_command: a proper prefix of what it would do
Cut(h) == {[h EXCEPT !.events = SubSeq(h.events, 1, n)] : n \in 0..(Len(h.events) - 1)}

\* KeyboardInterrupt inside handle_command, during one of its blocking calls:
\* the calls before it were made, the rest never are (no handler on the way
\* catches KeyboardInterrupt, the `except Exception` clauses do not)
ReadSerialInterrupt ==
    /\ pc = "loop"
    /\ running
    /\ ser = "open"
    /\ \E raw \in RawLines :
          LET line == Decode(raw)
          IN  /\ line # <<>>
              /\ \E h \in UNION {Cut(c) : c \in Handled(Strip(line), ready_count, ser)} :
                    /\ events' = h.events
                    /\ ready_count' = h.ready_count
                    /\ lastLine' = <<Strip(line)>>
    /\ pending' = "KeyboardInterrupt"
    /\ pc' = "finally"
    /\ interrupted' = TRUE
    /\ UNCHANGED <<MAX_RETRIES, ser, running, retry_count, exit_status,
                   outcomes, started, leaked>>

\* run()'s loop: time.sleep(0.01) ends and `while self.running` is evaluated:
\* the next iteration starts, or the loop ends and run() goes through its
\* finally clause with no exception in flight
LoopSleep ==
    /\ pc = "loop_sleep"
    /\ pc' = IF running THEN "loop" ELSE "finally"
    /\ events' = <<>>
    /\ lastLine' = None
    /\ UNCHANGED <<MAX_RETRIES, pending, ser, running, ready_count, retry_count,
                   exit_status, outcomes, started, leaked, interrupted>>

\* an `except KeyboardInterrupt` clause in run() without its `raise`: the
\* interrupt is consumed and run() returns
LoopInterrupt_Swallowed ==
    /\ pc = "loop"
    /\ running
    /\ pending' = "none"
    /\ pc' = "finally"
    /\ interrupted' = TRUE
    /\ UNCHANGED <<MAX_RETRIES, ser, running, ready_count, retry_count,
                   exit_status, events, lastLine, outcomes, started, leaked>>

\* KeyboardInterrupt in the loop outside handle_command (polling, or the
\* sleep(0.01) that ended the iteration before)
LoopInterrupt ==
    /\ pc = "loop"
    /\ running
    /\ pending' = "KeyboardInterrupt"
    /\ pc' = "finally"
    /\ interrupted' = TRUE
    /\ UNCHANGED <<MAX_RETRIES, ser, running, ready_count, retry_count,
                   exit_status, events, lastLine, outcomes, started, leaked>>

\* run(): finally: self.running = False; the port is open, so the inner try
\* is entered.  The loop is left: no iteration is current any more.
Finally ==
    /\ pc = "finally"
    /\ running' = FALSE
    /\ pc' = IF ser = "open" THEN "finally_close" ELSE "main_except"
    /\ events' = <<>>
    /\ lastLine' = None
    /\ UNCHANGED <<MAX_RETRIES, pending, ser, ready_count, retry_count,
                   exit_status, outcomes, started, leaked, interrupted>>

\* KeyboardInterrupt in the finally clause before the inner try: it replaces
\* the exception in flight and the port is not closed
FinallyInterrupt ==
    /\ pc = "finally"
    /\ running' \in {running, FALSE}
    /\ pending' = "KeyboardInterrupt"
    /\ pc' = "main_except"
    /\ interrupted' = TRUE
    /\ events' = <<>>
    /\ lastLine' = None
    /\ UNCHANGED <<MAX_RETRIES, ser, ready_count, retry_count, exit_status,
                   outcomes, started, leaked>>

\* self.ser.close()
FinallyClose ==
    /\ pc = "finally_close"
    /\ ser' = "closed"
    /\ pc' = "finally_sleep"
    /\ UNCHANGED <<MAX_RETRIES, pending, running, ready_count, retry_count,
                   exit_status, events, lastLine, outcomes, started, leaked,
                   interrupted>>

\* KeyboardInterrupt inside the inner try before close() took effect: the
\* bare `except: pass` swallows it, the port stays open and the exception in
\* flight goes on to main()
FinallyCloseInterrupt ==
    /\ pc = "finally_close"
    /\ pc' = "main_except"
    /\ interrupted' = TRUE
    /\ UNCHANGED <<MAX_RETRIES, pending, ser, running, ready_count, retry_count,
                   exit_status, events, lastLine, outcomes, started, leaked>>

\* sleep(0.5) ends; "Bridge stopped"; the exception in flight goes on to main()
FinallySleep ==
    /\ pc = "finally_sleep"
    /\ pc' = "main_except"
    /\ UNCHANGED <<MAX_RETRIES, pending, ser, running, ready_count, retry_count,
                   exit_status, events, lastLine, outcomes, started, leaked,
                   interrupted>>

\* KeyboardInterrupt during sleep(0.5): swallowed by the bare `except: pass`
FinallySleepInterrupt ==
    /\ pc = "finally_sleep"
    /\ pc' = "main_except"
    /\ interrupted' = TRUE
    /\ UNCHANGED <<MAX_RETRIES, pending, ser, running, ready_count, retry_count,
                   exit_status, events, lastLine, outcomes, started, leaked>>

----------------------------------------------------------------------------
(* main(): the except clauses of the retry loop *)

\* a reset that leaves the counter as it is
OnRestartRequested_Keep(rc) == rc

\* `except RestartRequested: retry_count = 0`
OnRestartRequested(rc) == 0

\* a failure that is not counted
OnException_Stuck(rc) == rc

\* a failure counted twice
OnException_Double(rc) == rc + 2

\* `except Exception: retry_count += 1`
OnException(rc) == rc + 1

\* `if MAX_RETRIES and retry_count >= MAX_RETRIES`
MaxRetriesReached(max, rc) == Truthy(max) /\ rc >= max[1]

\* `except KeyboardInterrupt: break`, and the `break` after a run() that
\* returned: main() returns and the process ends with status 0
MainBreak ==
    /\ pc = "main_except"
    /\ pending \in {"KeyboardInterrupt", "none"}
    /\ outcomes' = Append(outcomes, pending)
    /\ pending' = "none"
    /\ exit_status' = <<0>>
    /\ pc' = "exited"
    /\ UNCHANGED <<MAX_RETRIES, ser, running, ready_count, retry_count, events,
                   lastLine, started, leaked, interrupted>>

\* a reset handled like a failure that is not counted: wait before restarting
MainRestart_Delayed ==
    /\ pc = "main_except"
    /\ pending = "RestartRequested"
    /\ outcomes' = Append(outcomes, pending)
    /\ pending' = "none"
    /\ retry_count' = OnRestartRequested(retry_count)
    /\ pc' = "retry_wait"
    /\ UNCHANGED <<MAX_RETRIES, ser, running, ready_count, exit_status, events,
                   lastLine, started, leaked, interrupted>>

\* `except RestartRequested`: clear the counter and go round at once
MainRestart ==
    /\ pc = "main_except"
    /\ pending = "RestartRequested"
    /\ outcomes' = Append(outcomes, pending)
    /\ pending' = "none"
    /\ retry_count' = OnRestartRequested(retry_count)
    /\ pc' = "main_loop"
    /\ UNCHANGED <<MAX_RETRIES, ser, running, ready_count, exit_status, events,
                   lastLine, started, leaked, interrupted>>

\* `except Exception`: count, then sys.exit(1) or sleep(RETRY_DELAY)
MainException ==
    /\ pc = "main_except"
    /\ pending \notin {"KeyboardInterrupt", "RestartRequested", "none"}
    /\ outcomes' = Append(outcomes, pending)
    /\ pending' = "none"
    /\ retry_count' = OnException(retry_count)
    /\ IF MaxRetriesReached(MAX_RETRIES, retry_count')
       THEN exit_status' = <<1>> /\ pc' = "exited"
       ELSE exit_status' = exit_status /\ pc' = "retry_wait"
    /\ UNCHANGED <<MAX_RETRIES, ser, running, ready_count, events, lastLine,
                   started, leaked, interrupted>>

\* time.sleep(RETRY_DELAY) ends; back to the top of the loop
RetryWait ==
    /\ pc = "retry_wait"
    /\ pc' = "main_loop"
    /\ UNCHANGED <<MAX_RETRIES, pending, ser, running, ready_count, retry_count,
                   exit_status, events, lastLine, outcomes, started, leaked,
                   interrupted>>

\* KeyboardInterrupt during time.sleep(RETRY_DELAY): break
RetryWaitInterrupt ==
    /\ pc = "retry_wait"
    /\ exit_status' = <<0>>
    /\ pc' = "exited"
    /\ interrupted' = TRUE
    /\ UNCHANGED <<MAX_RETRIES, pending, ser, running, ready_count, retry_count,
                   events, lastLine, outcomes, started, leaked>>

Next ==
    \/ CreateBridge
    \/ ConnectOk
    \/ ConnectFail
    \/ ConnectInterrupt
    \/ Settle
    \/ SettleInterrupt
    \/ ReadSerial
    \/ ReadSerialFail
    \/ ReadSerialInterrupt
    \/ LoopSleep
    \/ LoopInterrupt
    \/ Finally
    \/ FinallyInterrupt
    \/ FinallyClose
    \/ FinallyCloseInterrupt
    \/ FinallySleep
    \/ FinallySleepInterrupt
    \/ MainBreak
    \/ MainRestart
    \/ MainException
    \/ RetryWait
    \/ RetryWaitInterrupt

Spec == Init /\ [][Next]_vars

----------------------------------------------------------------------------
(* Properties *)

\* a run() outcome that main() handles in `except Exception`
IsFailure(o) == o \notin {"KeyboardInterrupt", "RestartRequested", "none"}

\* restarts of a session after a failure: failed runs followed by a new bridge
RetriesDone ==
    Cardinality({i \in 1..Len(outcomes) : IsFailure(outcomes[i]) /\ started > i})

AllConnectionLost ==
    \A i \in 1..Len(outcomes) : outcomes[i] = "ConnectionError"

\* C1: with a maximum N configured and every session failing with
\* connection-lost, the supervisor has made exactly N retries when it aborts
\* with status 1; with no maximum configured it never aborts.
C1_ExactlyNRetriesThenAbort ==
    /\ (MAX_RETRIES # None /\ AllConnectionLost /\ exit_status = <<1>>)
          => RetriesDone = MAX_RETRIES[1]
    /\ MAX_RETRIES = None => exit_status # <<1>>

RECURSIVE FailuresSinceReset(_)
FailuresSinceReset(os) ==
    IF os = <<>> \/ os[Len(os)] = "RestartRequested" THEN 0
    ELSE FailuresSinceReset(SubSeq(os, 1, Len(os) - 1))
         + (IF IsFailure(os[Len(os)]) THEN 1 ELSE 0)

\* C2: as long as the supervisor has not aborted, retry_count is the number of
\* failure outcomes since the most recent reset signal (since process start if
\* there was none); nothing that happens inside a session changes it.
C2_AttemptCountIsFailuresSinceReset ==
    exit_status # <<1>> => retry_count = FailuresSinceReset(outcomes)

\* the outcome sequence [failure, failure, reset, failure] has been handled
C2_Witness ==
    /\ outcomes = <<"ConnectionError", "ConnectionError", "RestartRequested",
                    "ConnectionError">>
    /\ retry_count = 1
    /\ pc = "retry_wait"

\* C3: when a session that has processed one READY processes another one, it
\* leaves its loop by RestartRequested and makes no remote state query and no
\* serial write for that READY.
C3_SecondReadyIsReset ==
    (lastLine = <<READY>> /\ ready_count > 1)
       => /\ pending = "RestartRequested"
          /\ pc = "finally"
          /\ events = <<>>

C3_Witness ==
    lastLine = <<READY>> /\ ready_count = 2 /\ pending = "RestartRequested"

\* the tri-state the spec gives a query result: None is Unknown
EntityState(queried) ==
    IF queried = NoneState THEN "Unknown" ELSE IF queried = "on" THEN "on" ELSE "off"

\* C4: when handle_command has run to its end for TOGGLE of a mapped key: after
\* a successful invoke the calls are invoke, query, write in that order, with one
\* STATE write for that key carrying the queried state; after a failed invoke
\* the invoke is the only call.
C4_ToggleWritesQueriedState ==
    (pc = "loop_sleep" /\ events # <<>> /\ events[1].op = "invoke")
       => IF events[1].ok
          THEN /\ Len(events) = 3
               /\ events[2].op = "query" /\ events[2].key = events[1].key
               /\ events[3].op = "write" /\ events[3].key = events[1].key
               /\ events[3].arg = EntityState(events[2].arg)
          ELSE Len(events) = 1

\* the command is TOGGLE:<n> for an integer n that is not a key of ENTITY_MAP
IsUnmappedToggle(command) ==
    /\ StartsWith(command, TOGGLE_)
    /\ LET n == PyInt(SubSeq(command, Len(TOGGLE_) + 1, Len(command)))
       IN  n.ok /\ n.val \notin MappedKeys

\* C5: handling TOGGLE:k for an unmapped k makes no remote call and no serial
\* write, and the session stays in its loop.
C5_UnmappedToggleIsNoOp ==
    (lastLine # None /\ IsUnmappedToggle(lastLine[1]))
       => events = <<>> /\ pc = "loop_sleep" /\ pending = "none" /\ running

C5_Witness ==
    lastLine = <<TOGGLE_ \o <<"1", "2">>>> /\ pc = "loop_sleep"

\* the command starts with TOGGLE: and what follows is not an integer
IsMalformedToggle(command) ==
    /\ StartsWith(command, TOGGLE_)
    /\ ~PyInt(SubSeq(command, Len(TOGGLE_) + 1, Len(command))).ok

\* C6: a TOGGLE: line whose suffix is not an integer is handled as an unknown
\* command: no exception, no remote call, no serial write, session still in its loop.
C6_MalformedToggleIsUnknown ==
    (lastLine # None /\ IsMalformedToggle(lastLine[1]))
       => events = <<>> /\ pc = "loop_sleep" /\ pending = "none"

\* C7: whenever run() has been left, the port that bridge opened is closed.
C7_TransportClosedOnReturn ==
    pc = "main_except" => ser # "open"

\* C8: once the operator has interrupted, no further bridge is created and the
\* process does not end with status 1.
C8_InterruptIsFinal ==
    [][interrupted => (started' = started /\ exit_status' # <<1>>)]_vars

\* a remote call of the current iteration failed
RemoteFailureIn(evs) ==
    \E i \in 1..Len(evs) : evs[i].op \in {"invoke", "query"} /\ ~evs[i].ok

\* C9: an iteration of the loop in which a remote call fails leaves the session
\* in its loop (unless the operator interrupts it), with retry_count unchanged
\* and the process alive.
C9_RemoteFailureStaysInSession ==
    [][(pc = "loop" /\ RemoteFailureIn(events'))
          => /\ retry_count' = retry_count
             /\ exit_status' = None
             /\ \/ pc' = "loop_sleep" /\ pending' = "none"
                \/ pending' = "KeyboardInterrupt"]_vars

C9_Witness ==
    /\ pc = "loop_sleep"
    /\ pending = "none"
    /\ \E i \in 1..Len(events) : events[i].op = "invoke" /\ ~events[i].ok

\* C10: no STATE:k:off is written for a key whose query, just before, gave
\* None (Unknown).
C10_UnknownIsNotOff ==
    \A i \in 2..Len(events) :
       (events[i].op = "write" /\ events[i].arg = "off")
          => ~(/\ events[i - 1].op = "query"
               /\ events[i - 1].key = events[i].key
               /\ events[i - 1].arg = NoneState)

\* a serial write of the current iteration failed
FailedWriteIn(evs) ==
    \E i \in 1..Len(evs) : evs[i].op = "write" /\ ~evs[i].ok

\* C11 as claimed: a failed write of a STATE line ends the session with a
\* failure outcome (unless the operator interrupts first).
C11_WriteFailureIsFatal ==
    (FailedWriteIn(events) /\ pending # "KeyboardInterrupt")
       => pc = "finally" /\ IsFailure(pending)

\* C11 as amended: a failed write of a STATE line is absorbed by send_state; the
\* iteration leaves the session in its loop (unless the operator interrupts
\* it), with retry_count unchanged and the process alive.
C11_WriteFailureIsAbsorbed ==
    [][(pc = "loop" /\ FailedWriteIn(events'))
          => /\ retry_count' = retry_count
             /\ exit_status' = None
             /\ ser' = "open"
             /\ \/ pc' = "loop_sleep" /\ pending' = "none"
                \/ pending' = "KeyboardInterrupt"]_vars

C11_Witness ==
    pc = "loop_sleep" /\ pending = "none" /\ FailedWriteIn(events)

\* C12: main() handles a reset signal by setting retry_count to zero and going
\* straight back to the top of its loop: no retry wait, no exit, whatever
\* retry_count and MAX_RETRIES are.
C12_ResetRestartsAtOnce ==
    [][(pc = "main_except" /\ pending = "RestartRequested")
          => /\ retry_count' = 0
             /\ pc' = "main_loop"
             /\ exit_status' = None
             /\ outcomes' = Append(outcomes, "RestartRequested")]_vars

\* a reset handled after a counted failure, with a maximum configured
C12_Witness ==
    /\ pc = "main_loop"
    /\ Truthy(MAX_RETRIES)
    /\ Len(outcomes) >= 2
    /\ outcomes[Len(outcomes)] = "RestartRequested"
    /\ IsFailure(outcomes[Len(outcomes) - 1])
    /\ retry_count = 0

\* A persistently failing transport: every session ends by a failed open or
\* a failed read, the device is never heard, the operator does not interrupt.
\* The control flow is sequential and always takes its next step.
NextFailing ==
    \/ CreateBridge
    \/ ConnectOk
    \/ ConnectFail
    \/ Settle
    \/ ReadSerialFail
    \/ Finally
    \/ FinallyClose
    \/ FinallySleep
    \/ MainException
    \/ RetryWait

SpecFailing == Init /\ [][NextFailing]_vars /\ WF_vars(NextFailing)

\* C13 as claimed, for every configured value of the maximum: the supervisor
\* does not go on retrying once retry_count has reached the maximum, so it is
\* never found in the retry wait with retry_count at or above it.
C13_AbortsForEveryMaximum ==
    (MAX_RETRIES # None /\ pc = "retry_wait") => retry_count < MAX_RETRIES[1]

\* C13 as amended: with a non-zero maximum configured and a persistently
\* failing transport, the process eventually exits with status 1.
C13_EventuallyAborts ==
    [](Truthy(MAX_RETRIES) => <>(pc = "exited" /\ exit_status = <<1>>))

\* the abort after the largest configured maximum, reached after as many failures
C13_Witness ==
    /\ MAX_RETRIES = <<MaxRetriesBound>>
    /\ exit_status = <<1>>
    /\ retry_count = MaxRetriesBound
    /\ AllConnectionLost

\* the positions of the events of one kind for one key
EventsOf(evs, op, key) ==
    {i \in 1..Len(evs) : evs[i].op = op /\ evs[i].key = key}

\* C14: when handle_command has run to its end for the first READY of a
\* session, every mapped key was queried exactly once; a key whose query gave a
\* state has one STATE write, right after the query and carrying that state; a
\* key whose query failed has no STATE write; the session is in its loop.
C14_ReconciliationSkipsFailedKeys ==
    (pc = "loop_sleep" /\ lastLine = <<READY>> /\ ready_count = 1)
       => \A k \in MappedKeys :
             /\ Cardinality(EventsOf(events, "query", k)) = 1
             /\ \A i \in EventsOf(events, "query", k) :
                   IF events[i].ok
                   THEN /\ EventsOf(events, "write", k) = {i + 1}
                        /\ events[i + 1].arg = EntityState(events[i].arg)
                   ELSE EventsOf(events, "write", k) = {}

\* the key a TOGGLE command is for, as handle_command reads it
ToggleKey(command) == PyInt(Split(command, ":")[2])

\* the command is a TOGGLE that handle_command takes for mapped key k
IsToggleFor(command, k) ==
    /\ StartsWith(command, TOGGLE_)
    /\ ToggleKey(command) = [ok |-> TRUE, val |-> k]
    /\ k \in MappedKeys

AllInvokes(evs) == {i \in 1..Len(evs) : evs[i].op = "invoke"}

\* C15: service calls are made only for a TOGGLE line of a mapped key, for
\* that key, and at most once per line: exactly once when handle_command ran
\* to its end, also when the call failed; a new bridge starts with none.
C15_OneInvokePerToggle ==
    /\ Cardinality(AllInvokes(events)) <= 1
    /\ \A i \in AllInvokes(events) :
          lastLine # None /\ IsToggleFor(lastLine[1], events[i].key)
    /\ \A k \in MappedKeys :
          (pc = "loop_sleep" /\ lastLine # None /\ IsToggleFor(lastLine[1], k))
             => Cardinality(EventsOf(events, "invoke", k)) = 1
    /\ pc \in {"connect", "settle"} => events = <<>>

\* a failed service call that was left at one attempt
C15_Witness ==
    /\ pc = "loop_sleep"
    /\ lastLine = <<TOGGLE_ \o <<"1">>>>
    /\ Len(events) = 1
    /\ events[1].op = "invoke" /\ ~events[1].ok /\ events[1].key = 1

\* C16: a failed open takes run() straight back to main() with a
\* ConnectionError: no second attempt, no line read, nothing written.  A failed
\* read takes the loop to the finally clause with a ConnectionError.  main()
\* counts a ConnectionError as one failure: retry_count goes up by one.
C16_TransportFailureIsOneFailure ==
    [][/\ (pc = "connect" /\ ser' # "open" /\ pending' # "KeyboardInterrupt")
             => /\ pending' = "ConnectionError"
                /\ pc' = "main_except"
                /\ ser' = "None"
                /\ events' = <<>> /\ lastLine' = None
                /\ started' = started
       /\ (pc = "loop" /\ pc' = "finally" /\ lastLine' = None
              /\ pending' # "KeyboardInterrupt")
             => pending' = "ConnectionError" /\ started' = started
       /\ (pc = "main_except" /\ pending = "ConnectionError")
             => /\ retry_count' = retry_count + 1
                /\ outcomes' = Append(outcomes, "ConnectionError")
                /\ started' = started]_vars

\* a failed open of the first bridge, then a failed read of the second
C16_Witness ==
    /\ outcomes = <<"ConnectionError", "ConnectionError">>
    /\ retry_count = 2
    /\ started = 2
    /\ ser = "closed"
    /\ leaked = 0
    /\ pc = "retry_wait"

\* open transport handles: the current bridge's and those left by earlier ones
OpenHandles == leaked + (IF ser = "open" THEN 1 ELSE 0)

\* C17: at most one transport handle is open; when main() is between two
\* sessions the last bridge's port is closed, so a bridge is only created over
\* closed ports; STATE lines are written only with the current port open.
C17_OneTransportAtATime ==
    /\ OpenHandles <= 1
    /\ pc \in {"main_loop", "retry_wait"} => ser # "open"
    /\ (\E i \in 1..Len(events) : events[i].op = "write")
          => ser = "open" /\ pc \in {"loop_sleep", "finally"}

\* the command is Heartbeat, Debug, Error or Unknown by the protocol's rules:
\* Unknown is every line that is not READY, HEARTBEAT, DEBUG:..., ERROR:... or
\* TOGGLE: followed by an integer
IsPassive(command) ==
    /\ command # READY
    /\ ~(StartsWith(command, TOGGLE_)
         /\ PyInt(SubSeq(command, Len(TOGGLE_) + 1, Len(command))).ok)

\* C18: handling a Heartbeat, Debug, Error or Unknown line (the empty line
\* included) changes neither ready_count nor retry_count, makes no remote call
\* and no serial write, and leaves the session in its loop.
C18_PassiveCommandsChangeNothing ==
    [][(pc = "loop" /\ lastLine' # None /\ IsPassive(lastLine'[1]))
          => /\ ready_count' = ready_count
             /\ retry_count' = retry_count
             /\ events' = <<>>
             /\ pc' = "loop_sleep"
             /\ pending' = "none"]_vars

\* C19: a new bridge starts with ready_count = 0 whatever the earlier ones
\* counted; the counter changes only by one READY at a time; and a READY
\* handled at ready_count = 0 is never a reset: when handle_command runs to its
\* end, every mapped key was queried and the session is in its loop.
C19_ReadyCounterIsPerSession ==
    [][/\ started' # started => ready_count' = 0
       /\ pc' \in {"connect", "settle"} => ready_count' = 0
       /\ (ready_count' # ready_count /\ started' = started)
             => /\ pc = "loop"
                /\ lastLine' = <<READY>>
                /\ ready_count' = ready_count + 1
       /\ (pc = "loop" /\ ready_count = 0 /\ lastLine' = <<READY>>)
             => /\ ready_count' = 1
                /\ pending' # "RestartRequested"
                /\ pending' = "none"
                      => /\ pc' = "loop_sleep"
                         /\ \A k \in MappedKeys :
                               EventsOf(events', "query", k) # {}]_vars

\* a first READY reconciled by a bridge that follows one ended by a reset
C19_Witness ==
    /\ outcomes # <<>>
    /\ outcomes[Len(outcomes)] = "RestartRequested"
    /\ started = Len(outcomes) + 1
    /\ lastLine = <<READY>>
    /\ ready_count = 1
    /\ pc = "loop_sleep"
    /\ \A k \in MappedKeys : EventsOf(events, "query", k) # {}

----------------------------------------------------------------------------
(* Healthy transport and remote: the device sends what code.py can send,    *)
(* every request is answered with a state, every write succeeds, nobody     *)
(* interrupts.                                                              *)

\* the lines code.py writes: READY and DEBUG at startup, HEARTBEAT, TOGGLE:<key>
DeviceLines ==
    { READY \o <<"\n">>,
      DEBUG_ \o <<"k", "\n">>,
      HEARTBEAT \o <<"\n">>,
      TOGGLE_ \o <<"1", "\n">>,
      TOGGLE_ \o <<"2", "\n">>,
      TOGGLE_ \o <<"3", "\n">>,
      TOGGLE_ \o <<"1", "2", "\n">> }

HealthyEnvs ==
    { [get  |-> g, post |-> HealthyPost, wr |-> [k \in MappedKeys |-> TRUE]] :
      g \in [MappedKeys -> {r \in GetResponses : r.state \in {"on", "off"}}] }

\* one iteration of run()'s loop that handles a line of the device.  A device
\* reset (READY after READY) is taken only while main() may still create the
\* bridge that follows it.
ReadSerialHealthy ==
    /\ pc = "loop"
    /\ running
    /\ ser = "open"
    /\ \E raw \in DeviceLines, env \in HealthyEnvs :
          LET command == Strip(Decode(raw))
              h       == handle_command(command, ready_count, ser, env)
          IN  /\ h.exc = "RestartRequested" => started < MaxSessions
              /\ ready_count' = h.ready_count
              /\ events' = h.events
              /\ lastLine' = <<command>>
              /\ IF h.exc = "none"
                 THEN pc' = "loop_sleep" /\ pending' = pending
                 ELSE pc' = "finally" /\ pending' = h.exc
    /\ UNCHANGED <<MAX_RETRIES, ser, running, retry_count, exit_status,
                   outcomes, started, leaked, interrupted>>

NextHealthy ==
    \/ CreateBridge
    \/ ConnectOk
    \/ Settle
    \/ ReadSerialHealthy
    \/ LoopSleep
    \/ Finally
    \/ FinallyClose
    \/ FinallySleep
    \/ MainRestart

SpecHealthy == Init /\ [][NextHealthy]_vars /\ WF_vars(NextHealthy)

\* a reconciliation pass has written a STATE line for every mapped key
Reconciled ==
    /\ pc = "loop_sleep"
    /\ lastLine = <<READY>>
    /\ \A k \in MappedKeys :
          \E i \in EventsOf(events, "write", k) : events[i].ok

\* C20: every READY the bridge receives, the one taken for a device reset
\* included, is eventually followed by a reconciliation pass.
C20_ReadyLeadsToReconciliation ==
    [](lastLine = <<READY>> => <>Reconciled)

\* main() is between two sessions or has ended: no run() is in progress
NoSessionInProgress == pc \in {"main_loop", "retry_wait", "exited"}

\* C21: run() never returns normally.  Inside the loop `running` is true, so
\* the loop is left only by an exception; from run()'s finally clause to
\* main()'s except clauses an exception is in flight; and every session main()
\* has run ended in exactly one outcome, which is a reset, an interrupt or a
\* failure, never a return.
C21_RunNeverReturns ==
    /\ pc \in {"loop", "loop_sleep"} => running
    /\ pc \in {"finally", "finally_close", "finally_sleep", "main_except"}
          => pending # "none"
    /\ Len(outcomes) = IF NoSessionInProgress THEN started ELSE started - 1
    /\ \A i \in 1..Len(outcomes) :
          \/ outcomes[i] = "RestartRequested"
          \/ outcomes[i] = "KeyboardInterrupt"
          \/ IsFailure(outcomes[i])

\* main() has left its loop after sessions of all three outcomes, the last
\* one interrupted
C21_Witness ==
    /\ pc = "exited"
    /\ exit_status = <<0>>
    /\ Len(outcomes) = started
    /\ outcomes[Len(outcomes)] = "KeyboardInterrupt"
    /\ \E i, j \in 1..Len(outcomes) :
          outcomes[i] = "RestartRequested" /\ IsFailure(outcomes[j])

====
